---- MODULE Spec2Model ----
(***************************************************************************)
(* Model of the commit browser of git-tm: the paged Commit Store           *)
(* (Git.commits, Git.touch, Git._fetch) and the incremental lane           *)
(* assignment that Commits.initialize runs on every change of the store.   *)
(*                                                                         *)
(* JavaScript arrays are modelled as functions with domain 0..n-1, so      *)
(* that row, lane and page indices are the indices of the source.          *)
(***************************************************************************)
EXTENDS Integers, Sequences, FiniteSets, TLC

(***************************************************************************)
(* Bounds.  STEP is the page size (50 in base.ts); the model runs the same *)
(* arithmetic on small pages.  ShortRows is the number of commits of the   *)
(* repositories whose parent lists vary freely; the repositories with      *)
(* LongRows commits span three pages and vary less; one more repository is *)
(* the four-commit scenario of a linear history with one merge.            *)
(***************************************************************************)
STEP == 2
ShortRows == 3
LongRows == 2 * STEP + 1
\* The longest list a Scrollable is given.
MaxItems == 3
\* The most tasks queued for one animation frame.
MaxTasks == 2
MaxScheduled == 7

(***************************************************************************)
(* JavaScript values and array helpers.                                    *)
(***************************************************************************)
Null == "null"
Undefined == [undefined |-> TRUE]
PlaceHolder == [placeholder |-> TRUE]
NoTrack == [hole |-> TRUE]
NoMerged == -1

Length(a) == Cardinality(DOMAIN a)

Arr(s) == [j \in 0..(Len(s) - 1) |-> s[j + 1]]

Push(a, x) == [j \in 0..Length(a) |-> IF j < Length(a) THEN a[j] ELSE x]

\* a[idx] = x on an array with holes: the array grows to idx + 1.
Put(a, idx, x, hole) ==
    [j \in 0..((IF idx >= Length(a) THEN idx + 1 ELSE Length(a)) - 1) |->
        IF j = idx THEN x ELSE IF j < Length(a) THEN a[j] ELSE hole]

\* Array.prototype.indexOf: the first index holding x, or -1.
IndexOf(a, x) ==
    IF \E j \in DOMAIN a : a[j] = x
    THEN CHOOSE j \in DOMAIN a : a[j] = x /\ \A q \in DOMAIN a : a[q] = x => j <= q
    ELSE -1

Includes(a, x) == \E j \in DOMAIN a : a[j] = x

Min(a, b) == IF a < b THEN a ELSE b

\* splice that inserts the page without replacing the slots it covers.
Splice_Inserts(a, start, deleteCount, ins) ==
    LET s == Min(start, Length(a))
        n == Length(a) + Length(ins)
    IN  [j \in 0..(n - 1) |->
            IF j < s THEN a[j]
            ELSE IF j < s + Length(ins) THEN ins[j - s]
            ELSE a[j - Length(ins)]]

\* Array.prototype.splice(start, deleteCount, ...ins).
Splice(a, start, deleteCount, ins) ==
    LET s == Min(start, Length(a))
        d == Min(deleteCount, Length(a) - s)
        n == Length(a) - d + Length(ins)
    IN  [j \in 0..(n - 1) |->
            IF j < s THEN a[j]
            ELSE IF j < s + Length(ins) THEN ins[j - s]
            ELSE a[j - Length(ins) + d]]

\* Math.ceil(a / b) for a >= 0, b > 0.
Ceil(a, b) == (a + b - 1) \div b

(***************************************************************************)
(* The repository served by the backend: `git log --all` in row order.     *)
(* Row r carries the hash HashOf(r).  A parent is one of the next two rows *)
(* or, as the last parent, a hash that no row carries.                     *)
(***************************************************************************)
HashNames == <<"A", "B", "C", "D", "E", "F", "G", "H">>
HashOf(r) == HashNames[r + 1]
Missing == "Z"

LaterRows(r, n) == {HashOf(q) : q \in {q \in {r + 1, r + 2} : q < n}}

ParentLists(r, n) ==
    {Arr(<< >>), Arr(<<Missing>>)}
        \cup {Arr(<<a>>) : a \in LaterRows(r, n)}
        \cup {Arr(<<a, Missing>>) : a \in LaterRows(r, n)}
        \cup UNION {{Arr(<<a, b>>) : b \in LaterRows(r, n) \ {a}} : a \in LaterRows(r, n)}

\* A first-parent chain with merges of the row after the next one.
ChainLists(r, n) ==
    IF r + 1 >= n THEN {Arr(<< >>)}
    ELSE {Arr(<<HashOf(r + 1)>>)}
            \cup {Arr(<<HashOf(r + 1), HashOf(q)>>) : q \in {q \in {r + 2} : q < n}}

RECURSIVE HistoriesOf(_, _, _)
HistoriesOf(r, n, free) ==
    IF r = 0 THEN {Arr(<< >>)}
    ELSE {Push(h, [hash |-> HashOf(r - 1), parents |-> p]) :
            h \in HistoriesOf(r - 1, n, free),
            p \in IF free THEN ParentLists(r - 1, n) ELSE ChainLists(r - 1, n)}

\* A(B), B(C, D), C(), D(): a linear history with one merge.
Scenario ==
    Arr(<<[hash |-> "A", parents |-> Arr(<<"B">>)],
          [hash |-> "B", parents |-> Arr(<<"C", "D">>)],
          [hash |-> "C", parents |-> Arr(<< >>)],
          [hash |-> "D", parents |-> Arr(<< >>)]>>)

\* A(B, C, D), B(C), C(E, D, F, G), D(): an octopus merge whose parents
\* rejoin a lane, take a freed lane and open a new one.
Octopus ==
    Arr(<<[hash |-> "A", parents |-> Arr(<<"B", "C", "D">>)],
          [hash |-> "B", parents |-> Arr(<<"C">>)],
          [hash |-> "C", parents |-> Arr(<<"E", "D", "F", "G">>)],
          [hash |-> "D", parents |-> Arr(<< >>)]>>)

Histories ==
    HistoriesOf(ShortRows, ShortRows, TRUE)
        \cup HistoriesOf(LongRows, LongRows, FALSE)
        \cup {Scenario, Octopus}

MaxRows == CHOOSE n \in {Length(h) : h \in Histories} : \A h \in Histories : Length(h) <= n

\* The commit of the first Head ref (refs.find(e => e.type === Head)), if any.
Heads == {HashOf(0), HashOf(1), Null}

(***************************************************************************)
(* The lane assignment of one commit (commits.ts, the body of the loop     *)
(* over commits[i]).  `merged` is the index in `tracks` of the Track the   *)
(* source's variable `merged` refers to, or NoMerged.                      *)
(***************************************************************************)
ParentAt(commit, k) == IF k \in DOMAIN commit.parents THEN commit.parents[k] ELSE Null

Track(visible, depth, incomming, outgoing, active) ==
    [visible |-> visible, depth |-> depth, incomming |-> incomming,
     outgoing |-> outgoing, active |-> active]

\* Primary without the increment of k: parents[k] is read again by the while loop.
Primary_KeepsK(s, j, commit) ==
    LET out == ParentAt(commit, s.k)
    IN  [nextTracks |-> Put(s.nextTracks, j, out, Null),
         k |-> s.k,
         firstTrackInvisible |-> IF j = 0 /\ s.firstTrackInvisible THEN FALSE
                                 ELSE s.firstTrackInvisible,
         merged |-> j,
         tracks |-> Put(s.tracks, j,
                        Track(IF j = 0 /\ s.firstTrackInvisible THEN 1
                              ELSE IF s.firstTrackInvisible THEN 0 ELSE 2,
                              j, Arr(<<j>>),
                              IF out # Null THEN Arr(<<j>>) ELSE Arr(<< >>),
                              TRUE),
                        NoTrack)]

\* Primary that frees its lane also when the commit has a parent.
Primary_FreesLane(s, j, commit) ==
    LET out == ParentAt(commit, s.k)
    IN  [nextTracks |-> Put(s.nextTracks, j, Null, Null),
         k |-> s.k + 1,
         firstTrackInvisible |-> IF j = 0 /\ s.firstTrackInvisible THEN FALSE
                                 ELSE s.firstTrackInvisible,
         merged |-> j,
         tracks |-> Put(s.tracks, j,
                        Track(IF j = 0 /\ s.firstTrackInvisible THEN 1
                              ELSE IF s.firstTrackInvisible THEN 0 ELSE 2,
                              j, Arr(<<j>>),
                              IF out # Null THEN Arr(<<j>>) ELSE Arr(<< >>),
                              TRUE),
                        NoTrack)]

\* Primary that leaves firstTrackInvisible set.
Primary_KeepsFlag(s, j, commit) ==
    LET out == ParentAt(commit, s.k)
    IN  [nextTracks |-> Put(s.nextTracks, j, out, Null),
         k |-> s.k + 1,
         firstTrackInvisible |-> s.firstTrackInvisible,
         merged |-> j,
         tracks |-> Put(s.tracks, j,
                        Track(IF j = 0 /\ s.firstTrackInvisible THEN 1
                              ELSE IF s.firstTrackInvisible THEN 0 ELSE 2,
                              j, Arr(<<j>>),
                              IF out # Null THEN Arr(<<j>>) ELSE Arr(<< >>),
                              TRUE),
                        NoTrack)]

\* A lane that expects the commit, the first one: the commit's own Track.
Primary(s, j, commit) ==
    LET out == ParentAt(commit, s.k)
    IN  [nextTracks |-> Put(s.nextTracks, j, out, Null),
         k |-> s.k + 1,
         firstTrackInvisible |-> IF j = 0 /\ s.firstTrackInvisible THEN FALSE
                                 ELSE s.firstTrackInvisible,
         merged |-> j,
         tracks |-> Put(s.tracks, j,
                        Track(IF j = 0 /\ s.firstTrackInvisible THEN 1
                              ELSE IF s.firstTrackInvisible THEN 0 ELSE 2,
                              j, Arr(<<j>>),
                              IF out # Null THEN Arr(<<j>>) ELSE Arr(<< >>),
                              TRUE),
                        NoTrack)]

\* MergeIn without merged.incomming.push(j).
MergeIn_Forgets(s, j) == [s EXCEPT !.nextTracks = Put(@, j, Null, Null)]

\* MergeIn that leaves the lane expecting the commit.
MergeIn_KeepsLane(s, j) ==
    [s EXCEPT !.nextTracks = Put(@, j, s.nextTracks[s.merged], Null),
              !.tracks[s.merged].incomming = Push(@, j)]

\* Another lane that expects the commit: it ends in the commit's Track.
MergeIn(s, j) ==
    [s EXCEPT !.nextTracks = Put(@, j, Null, Null),
              !.tracks[s.merged].incomming = Push(@, j)]

\* PassThrough without the Track of the lane.
PassThrough_NoTrack(s, j, parent) == [s EXCEPT !.nextTracks = Put(@, j, parent, Null)]

\* PassThrough that frees the lane instead of carrying its hash on.
PassThrough_Drops(s, j, parent) ==
    [s EXCEPT !.nextTracks = Put(@, j, Null, Null),
              !.tracks = Put(@, j,
                             Track(IF j = 0 /\ s.firstTrackInvisible THEN 0 ELSE 2,
                                   j, Arr(<<j>>), Arr(<<j>>), FALSE),
                             NoTrack)]

\* PassThrough whose Track has no outgoing line.
PassThrough_NoOutgoing(s, j, parent) ==
    [s EXCEPT !.nextTracks = Put(@, j, parent, Null),
              !.tracks = Put(@, j,
                             Track(IF j = 0 /\ s.firstTrackInvisible THEN 0 ELSE 2,
                                   j, Arr(<<j>>), Arr(<< >>), FALSE),
                             NoTrack)]

\* A lane that expects another commit.
PassThrough(s, j, parent) ==
    [s EXCEPT !.nextTracks = Put(@, j, parent, Null),
              !.tracks = Put(@, j,
                             Track(IF j = 0 /\ s.firstTrackInvisible THEN 0 ELSE 2,
                                   j, Arr(<<j>>), Arr(<<j>>), FALSE),
                             NoTrack)]

\* A lane that expects nothing.
FreeLane(s, j) == [s EXCEPT !.nextTracks = Put(@, j, Null, Null)]

\* for (let j = 0; j < currentTracks.length; j++) { ... }
RECURSIVE ScanTracks(_, _, _, _)
ScanTracks(currentTracks, commit, j, s) ==
    IF j >= Length(currentTracks) THEN s
    ELSE
        LET parent == currentTracks[j]
        IN  ScanTracks(currentTracks, commit, j + 1,
                IF parent # Null
                THEN IF parent = commit.hash
                     THEN IF s.merged = NoMerged
                          THEN Primary(s, j, commit)
                          ELSE MergeIn(s, j)
                     ELSE PassThrough(s, j, parent)
                ELSE FreeLane(s, j))

\* A further parent that a lane of currentTracks expects already.
Rejoin(s, exist, p) ==
    [s EXCEPT !.nextTracks = Put(@, exist, p, Null),
              !.k = @ + 1,
              !.tracks = IF s.merged = NoMerged THEN @
                         ELSE [@ EXCEPT ![s.merged].outgoing = Push(@, exist)]]

\* AllocIndex that takes the last lane, not a new one, when no lane is free.
AllocIndex_Last(nextTracks) ==
    IF IndexOf(nextTracks, Null) < 0 THEN Length(nextTracks) - 1 ELSE IndexOf(nextTracks, Null)

\* AllocIndex that never takes a free lane.
AllocIndex_Append(nextTracks) == Length(nextTracks)

\* let index = nextTracks.indexOf(null); if (index < 0) index = nextTracks.length;
AllocIndex(nextTracks) ==
    IF IndexOf(nextTracks, Null) < 0 THEN Length(nextTracks) ELSE IndexOf(nextTracks, Null)

\* Allocate with merged?.outgoing.push(index) only: no Track without a primary.
Allocate_OnlyOutgoing(s, index, p) ==
    [s EXCEPT !.nextTracks = Put(@, index, p, Null),
              !.k = @ + 1,
              !.tracks = IF s.merged = NoMerged THEN @
                         ELSE [@ EXCEPT ![s.merged].outgoing = Push(@, index)]]

\* Allocate that makes a Track at the lane also when the commit has one.
Allocate_AlwaysTrack(s, index, p) ==
    [s EXCEPT !.nextTracks = Put(@, index, p, Null),
              !.k = @ + 1,
              !.merged = IF s.merged = NoMerged THEN index ELSE s.merged,
              !.tracks = Put(@, index,
                             Track(2, index, Arr(<< >>), Arr(<<index>>),
                                   s.merged = NoMerged),
                             NoTrack)]

\* A further parent that no lane expects: it takes the lane `index`.
Allocate(s, index, p) ==
    IF s.merged # NoMerged
    THEN [s EXCEPT !.nextTracks = Put(@, index, p, Null),
                   !.k = @ + 1,
                   !.tracks[s.merged].outgoing = Push(@, index)]
    ELSE [s EXCEPT !.nextTracks = Put(@, index, p, Null),
                   !.k = @ + 1,
                   !.merged = index,
                   !.tracks = Put(@, index,
                                  Track(2, index, Arr(<< >>), Arr(<<index>>), TRUE),
                                  NoTrack)]

\* while (commit.parents[k]) { ... }
RECURSIVE AssignParents(_, _, _)
AssignParents(currentTracks, commit, s) ==
    IF ParentAt(commit, s.k) = Null THEN s
    ELSE
        LET p == ParentAt(commit, s.k)
            exist == IndexOf(currentTracks, p)
        IN  AssignParents(currentTracks, commit,
                IF exist >= 0
                THEN Rejoin(s, exist, p)
                ELSE Allocate(s, AllocIndex(s.nextTracks), p))

\* One iteration of the loop: the row's tracks, the next lane state and flag.
ProcessCommit(currentTracks, firstTrackInvisible, commit) ==
    AssignParents(currentTracks, commit,
        ScanTracks(currentTracks, commit, 0,
            [nextTracks |-> Arr(<< >>), tracks |-> Arr(<< >>), merged |-> NoMerged,
             k |-> 0, firstTrackInvisible |-> firstTrackInvisible]))
(***************************************************************************)
(* State.                                                                  *)
(*   history, head       the repository behind the backend (never changes) *)
(*   commits             Git.commits, Undefined where a row is not loaded  *)
(*   _touching           Git._touching, the next page to request           *)
(*   _fetching           Git._fetching, the state of each page's promise   *)
(*   inflight            /log requests sent and not yet answered, per page *)
(*   notify              commits.$ has changed and its subscriber in       *)
(*                       Commits.initialize has not run yet                *)
(*   i, currentTracks, firstTrackInvisible                                 *)
(*                       the closure variables of Commits.initialize       *)
(*   items               Commits.items                                     *)
(*   laneLog             laneLog[r] is currentTracks after row r           *)
(***************************************************************************)
VARIABLES history, head, commits, _touching, _fetching, inflight, notify,
          i, currentTracks, firstTrackInvisible, items, laneLog

\* The state of one Scrollable: its options (itemHeight, the value of items$),
\* its inputs (containerHeight$, scrollTop$), the closure variables of the
\* constructor (lastRange, added, removed, children), the pool's _resources,
\* the templates made so far (doms: their style.top, whether they are
\* attached to `content`, the item last rendered into them), and what the
\* last step did: whether the subscriber of visibleRange$ ran, the indices
\* renderItem was called for, the index sent to onClick or onHover.
VARIABLES itemHeight, scrollItems, containerHeight, scrollTop,
          lastRange, added, removed, children, _resources, doms,
          handled, rendered, pointer

\* The frame scheduler (raf.ts) as the Scrollable uses it: the handle of the
\* requested animation frame (0: none) and the number of queued tasks, each
\* of them one write of content.style.height.
VARIABLES raf, tasks

\* this._itemEffects, a map keyed by item: for each item, the template its
\* live disposer (the one renderItem returned) belongs to, or 0 when the map
\* holds no disposer for the item.
VARIABLES _itemEffects

\* The largest number of templates that were allocated and not released at
\* the same time, up to now.
VARIABLES allocatedPeak

\* The editor: path$, the hash of git.commit$, contents$ and html$; the paths
\* in git.cache and git.codeCache; the task the queue is executing and the
\* task it holds for later.
VARIABLES path, commitHash, contents, html, cache, codeCache, running, pending

gitVars == <<commits, _touching, _fetching, inflight>>
laneVars == <<i, currentTracks, firstTrackInvisible, items, laneLog>>
appVars == <<history, head, commits, _touching, _fetching, inflight, notify,
             i, currentTracks, firstTrackInvisible, items, laneLog>>
rafVars == <<raf, tasks>>
scrollVars == <<itemHeight, scrollItems, containerHeight, scrollTop,
                lastRange, added, removed, children, _resources, doms,
                handled, rendered, pointer, rafVars, _itemEffects, allocatedPeak>>

editorVars == <<path, commitHash, contents, html, cache, codeCache, running, pending>>

\* One call of Git.goto: where it is (idle, awaiting, found, done, failed,
\* crashed), its loop variable, the page whose promise it awaits and the
\* hash of the commit that carries the ref it looks for.
VARIABLES gotoState, gotoI, gotoPage, gotoTarget

gotoVars == <<gotoState, gotoI, gotoPage, gotoTarget>>

\* The frame scheduler with its tasks told apart: the module variable `raf`,
\* the animation-frame requests not yet served, the `tasks` array, the tasks
\* run so far with the frame they ran in, the number of frames served and
\* the number of tasks scheduled.
VARIABLES rafHandle, requested, taskList, ran, frameNo, scheduledCount

frameVars == <<rafHandle, requested, taskList, ran, frameNo, scheduledCount>>

\* What the last calls of Git.blob and Git.render of a task were given: the
\* commit the calls resolved and the commits their promises were started for.
VARIABLES served

callVars == <<served>>

restVars == <<gotoVars, frameVars, callVars>>

vars == <<appVars, scrollVars, editorVars, restVars>>

Pages == 0..Ceil(MaxRows, STEP)

\* What `git log -n STEP --skip=group*STEP` returns.
LogPage(h, group) ==
    LET from == Min(group * STEP, Length(h))
        to == Min(group * STEP + STEP, Length(h))
    IN  [j \in 0..(to - from - 1) |-> h[from + j]]

\* Git.constructor: reactiveList(info.commits), then setLength(info.total).
InitialCommits(h) ==
    LET first == LogPage(h, 0)
    IN  [r \in 0..(Length(h) - 1) |-> IF r < Length(first) THEN first[r] ELSE Undefined]

(***************************************************************************)
(* Scrollable: the windowed list.  Pixels are integers; the two uses of    *)
(* the class pass the item heights 48 (commits) and 22 (files); the list   *)
(* is checked with rows of 48.                                             *)
(***************************************************************************)
ItemHeights == {48}
ContainerHeights == {0, 30}
ScrollTops == {0, 10, 30, 78}
\* e.clientY - this.dom.getBoundingClientRect().top of a mouse event.
PointerYs == {-5, 60}
ItemValues == {"x", "y"}

\* The values of items$: the lists of at most MaxItems items, all of them
\* "x" but at most one.
ItemLists ==
    UNION {{Arr([k \in 1..n |-> "x"])} \cup
           {Arr([k \in 1..n |-> IF k = p THEN "y" ELSE "x"]) : p \in 1..n} :
           n \in 0..MaxItems}

NoChild == [nochild |-> TRUE]
NoPointer == [nopointer |-> TRUE]

Max(a, b) == IF a > b THEN a ELSE b

\* The indices i with range.start <= i < range.end.
RangeIndices(range) == {k \in range.start..(range.end - 1) : TRUE}

RECURSIVE Ascending(_)
Ascending(S) ==
    IF S = {} THEN << >>
    ELSE LET m == CHOOSE x \in S : \A y \in S : x <= y
         IN  <<m>> \o Ascending(S \ {m})

SeqSet(q) == {q[k] : k \in DOMAIN q}

\* A range with one more row below the viewport.
VisibleRange_Overscan(top, height, count, h) ==
    [start |-> Max(0, top \div h), end |-> Min(count, Ceil(top + height, h) + 1)]

\* compute(get => ({ start: max(0, floor(scrollTop / itemHeight)),
\*                   end: min(itemsCount, ceil((scrollTop + containerHeight) / itemHeight)) }))
VisibleRange(top, height, count, h) ==
    [start |-> Max(0, top \div h), end |-> Min(count, Ceil(top + height, h))]

\* The diff that leaves out of `added` the indices that stay visible.
AddedOrder_OnlyNew(range, last) ==
    Ascending(RangeIndices(range) \ RangeIndices(last))

\* The Set `added` in insertion order: the indices of the new range outside
\* the last one, then the indices of the last range inside the new one.
AddedOrder(range, last) ==
    Ascending(RangeIndices(range) \ RangeIndices(last))
        \o Ascending(RangeIndices(last) \cap RangeIndices(range))

\* The diff that never fills `removed`.
RemovedOrder_None(range, last) == << >>

\* The Set `removed` in insertion order.
RemovedOrder(range, last) == Ascending(RangeIndices(last) \ RangeIndices(range))

\* A pool that constructs a template on every alloc.
PoolAlloc_Fresh(c) ==
    LET id == Len(c.doms) + 1 IN
    [c |-> [c EXCEPT !.doms = [d \in 1..id |->
               IF d = id THEN [top |-> 0, attached |-> FALSE, shown |-> NoChild]
               ELSE c.doms[d]]],
     dom |-> id]

\* Pool.alloc with the template it returns: the last released one, or a new one.
PoolAlloc(c) ==
    IF Len(c._resources) > 0
    THEN [c |-> [c EXCEPT !._resources = SubSeq(@, 1, Len(@) - 1)],
          dom |-> c._resources[Len(c._resources)]]
    ELSE LET id == Length(c.doms) + 1 IN
         [c |-> [c EXCEPT !.doms = [d \in 1..id |->
                    IF d = id THEN [top |-> 0, attached |-> FALSE, shown |-> NoChild]
                    ELSE c.doms[d]]],
          dom |-> id]

\* A release that puts the template on the free list twice.
PoolRelease_Twice(c, dom) ==
    [c EXCEPT !._resources = Append(Append(@, dom), dom)]

\* Pool.release
PoolRelease(c, dom) == [c EXCEPT !._resources = Append(@, dom)]

\* this._itemEffects.flush(item); this._itemEffects.set(item,
\* options.renderer.renderItem(dom, item)) for the row idx: the disposer the
\* map held for this item is invoked and replaced by the new one.
RenderItem(c, dom, item, idx) ==
    [c EXCEPT !.doms[dom].shown = item, !.rendered = @ \cup {idx},
              !._itemEffects[item] = dom]

\* The loop over `removed` that forgets the rows instead of releasing them.
ReleaseRemoved_Keeps(c, order) == c

\* for (const i of removed) { ... }
RECURSIVE ReleaseRemoved(_, _)
ReleaseRemoved(c, order) ==
    IF order = << >> THEN c
    ELSE LET idx == Head(order)
             e == c.children[idx]
         IN  ReleaseRemoved(
                IF e # NoChild
                THEN [PoolRelease([c EXCEPT !.children[idx] = NoChild], e.dom)
                        EXCEPT !.doms[e.dom].attached = FALSE]
                ELSE c,
                Tail(order))

\* for (const i of added) { ... }
RECURSIVE BindAdded(_, _, _, _)
BindAdded(c, order, its, h) ==
    IF order = << >> THEN c
    ELSE LET idx == Head(order)
             item == its[idx]
             e == c.children[idx]
         IN  IF e # NoChild /\ e.data = item
             THEN BindAdded(c, Tail(order), its, h)
             ELSE LET c1 == IF e # NoChild
                            THEN PoolRelease([c EXCEPT !.children[idx] = NoChild], e.dom)
                            ELSE c
                      a == PoolAlloc(c1)
                      c2 == [a.c EXCEPT !.doms[a.dom].top = h * idx,
                                        !.children[idx] = [data |-> item, dom |-> a.dom]]
                      c3 == RenderItem(c2, a.dom, item, idx)
                  IN  BindAdded([c3 EXCEPT !.doms[a.dom].attached = TRUE],
                                Tail(order), its, h)

\* The subscriber of visibleRange$, called with a range.
RangeSubscriber(c, range, its, h) ==
    LET c1 == [c EXCEPT !.lastRange = range, !.handled = TRUE]
        c2 == ReleaseRemoved(c1, RemovedOrder(range, c.lastRange))
        c3 == BindAdded(c2, AddedOrder(range, c.lastRange), its, h)
    IN  [c3 EXCEPT !.added = {}, !.removed = {}]

\* options.items$.reaction(items => { for (let i = start; i < end; i++) ... })
RECURSIVE ItemsReaction(_, _, _)
ItemsReaction(c, order, its) ==
    IF order = << >> THEN c
    ELSE LET idx == Head(order)
             e == c.children[idx]
         IN  ItemsReaction(
                IF e # NoChild THEN RenderItem(c, e.dom, its[idx], idx) ELSE c,
                Tail(order), its)

\* The closure state of the constructor as one record.
Closure ==
    [lastRange |-> lastRange, added |-> added, removed |-> removed,
     children |-> children, _resources |-> _resources, doms |-> doms,
     handled |-> FALSE, rendered |-> {}, _itemEffects |-> _itemEffects]

\* visibleRange$ without its `equal` option: every recomputation notifies.
RangeChange_Always(c, range, its, h) == RangeSubscriber(c, range, its, h)

\* visibleRange$ notifies its subscriber when the range is not `equal` to the last one.
RangeChange(c, range, its, h) ==
    IF range.start = c.lastRange.start /\ range.end = c.lastRange.end
    THEN c
    ELSE RangeSubscriber(c, range, its, h)

Becomes(c) ==
    /\ lastRange' = c.lastRange
    /\ added' = c.added
    /\ removed' = c.removed
    /\ children' = c.children
    /\ _resources' = c._resources
    /\ doms' = c.doms
    /\ handled' = c.handled
    /\ rendered' = c.rendered
    /\ _itemEffects' = c._itemEffects
    /\ allocatedPeak' = Max(allocatedPeak, Len(c.doms) - Len(c._resources))

\* The Scrollable after its constructor, for the options items$ and itemHeight.
ScrollableInit(its, h) ==
    /\ itemHeight = h
    /\ scrollItems = its
    /\ containerHeight = 0
    /\ scrollTop = 0
    /\ lastRange = [start |-> 0, end |-> 0]
    /\ added = {}
    /\ removed = {}
    /\ children = [k \in 0..(MaxItems - 1) |-> NoChild]
    /\ _resources = << >>
    /\ doms = << >>
    /\ handled = TRUE
    /\ rendered = {}
    /\ pointer = NoPointer
    /\ raf = 1
    /\ tasks = 1
    /\ _itemEffects = [item \in ItemValues |-> 0]
    /\ allocatedPeak = 0

\* Git and Commits after their construction.
(***************************************************************************)
(* The editor (Editor.initialize) and the content requests of Git.         *)
(***************************************************************************)
Paths == {"a", "b"}

\* path$ before any file is opened.
NoPath == ""

CommitHashes == {"A", "B"}

\* commit$ is undefined: the selected row is not loaded.
NoCommit == "-"
NoTask == [notask |-> TRUE]

\* After construction: the subscriber has run once with no path, which
\* fetches nothing and ends at once.
EditorInit ==
    /\ path = NoPath
    /\ commitHash = "A"
    /\ contents = Undefined
    /\ html = Undefined
    /\ cache = {}
    /\ codeCache = {}
    /\ running = NoTask
    /\ pending = NoTask

\* No goto is under way.
GotoInit ==
    /\ gotoState = "idle"
    /\ gotoI = 0
    /\ gotoPage = 0
    /\ gotoTarget = Missing

\* raf.ts: let raf = 0, tasks = [].
FrameInit ==
    /\ rafHandle = 0
    /\ scheduledCount = 0
    /\ requested = 0
    /\ taskList = << >>
    /\ ran = << >>
    /\ frameNo = 0

NoCall == [nocall |-> TRUE]

CallInit == served = NoCall

RestInit == GotoInit /\ FrameInit /\ CallInit

AppInit ==
    /\ history \in Histories
    /\ head \in Heads
    /\ commits = InitialCommits(history)
    /\ _touching = 1
    /\ _fetching = Arr(<<"fulfilled">>)
    /\ inflight = [g \in Pages |-> 0]
    /\ notify = TRUE
    /\ i = 0
    /\ currentTracks = Arr(<<head>>)
    /\ firstTrackInvisible = TRUE
    /\ items = Arr(<< >>)
    /\ laneLog = Arr(<< >>)

\* Commits.initialize makes its Scrollable over the empty `items`.
Init == AppInit /\ ScrollableInit(Arr(<< >>), 48) /\ EditorInit /\ RestInit

(***************************************************************************)
(* Git.touch(end): request every page up to ceil(end / STEP) that has not  *)
(* been requested yet.                                                     *)
(***************************************************************************)
\* touch that counts from the first page instead of _touching.
TouchedPages_FromFirst(touching, end) == {g \in 1..Ceil(end, STEP) : TRUE}

\* A touch that requests the page of `end` alone.
TouchedPages_OnlyLast(touching, end) ==
    IF touching <= Ceil(end, STEP) THEN {Ceil(end, STEP)} ELSE {}

TouchedPages(touching, end) == {g \in touching..Ceil(end, STEP) : TRUE}

\* The loop of Git.touch: every page from _touching to max is requested.
Requesting(end) ==
    LET new == TouchedPages(_touching, end) IN
        /\ _fetching' = [g \in DOMAIN _fetching \cup new |->
                            IF g \in new THEN "pending" ELSE _fetching[g]]
        /\ inflight' = [g \in DOMAIN inflight |-> IF g \in new THEN inflight[g] + 1 ELSE inflight[g]]
        /\ _touching' = IF new = {} THEN _touching ELSE Ceil(end, STEP) + 1

\* A touch that answers with the promise of the first page.
AwaitedPage_First(end) == 0

\* Git.touch: return this._fetching[max].
AwaitedPage(end) == Ceil(end, STEP)

\* Git.touch(end), called by the subscriber of the visible range.
Touch(end) ==
    /\ ~notify
    /\ Requesting(end)
    /\ UNCHANGED <<history, head, commits, notify, laneVars, scrollVars, editorVars, restVars>>

(***************************************************************************)
(* Git._fetch(group) after its await: the response of the backend arrives. *)
(***************************************************************************)
FetchOk(group) ==
    /\ inflight[group] > 0
    /\ LET info == LogPage(history, group) IN
        commits' = Splice(commits, group * STEP, Length(info), info)
    /\ _fetching' = [_fetching EXCEPT ![group] = "fulfilled"]
    /\ inflight' = [inflight EXCEPT ![group] = @ - 1]
    /\ notify' = TRUE
    /\ UNCHANGED <<history, head, _touching, laneVars, scrollVars, editorVars, restVars>>

\* _api throws (the response is not ok, or the network failed).
FetchFail(group) ==
    /\ inflight[group] > 0
    /\ _fetching' = [_fetching EXCEPT ![group] = "rejected"]
    /\ inflight' = [inflight EXCEPT ![group] = @ - 1]
    /\ UNCHANGED <<history, head, commits, _touching, notify, laneVars, scrollVars, editorVars, restVars>>

(***************************************************************************)
(* The subscriber of git.commits.$ in Commits.initialize.                  *)
(***************************************************************************)
\* A fill that stops one row before the end of the commit list.
PadItems_Short(its, cs) ==
    IF Length(its) < Length(cs) - 1
    THEN [r \in 0..(Length(cs) - 2) |-> IF r < Length(its) THEN its[r] ELSE PlaceHolder]
    ELSE its

\* items.replace(items.array.concat(Array(n).fill(PlaceHolder)))
PadItems(its, cs) ==
    IF Length(its) < Length(cs)
    THEN [r \in 0..(Length(cs) - 1) |-> IF r < Length(its) THEN its[r] ELSE PlaceHolder]
    ELSE its

\* The loop stepping over the rows that are not loaded instead of stopping there.
RECURSIVE LaneLoop_Skipping(_, _)
LaneLoop_Skipping(cs, e) ==
    IF e.i \in DOMAIN cs
    THEN IF cs[e.i] # Undefined
         THEN LET commit == cs[e.i]
                  s == ProcessCommit(e.currentTracks, e.firstTrackInvisible, commit)
              IN  LaneLoop_Skipping(cs,
                     [i |-> e.i + 1,
                      currentTracks |-> s.nextTracks,
                      firstTrackInvisible |-> s.firstTrackInvisible,
                      items |-> [e.items EXCEPT ![e.i] =
                                   [index |-> e.i, commit |-> commit, tracks |-> s.tracks]],
                      laneLog |-> Push(e.laneLog, s.nextTracks)])
         ELSE LaneLoop_Skipping(cs, [e EXCEPT !.i = @ + 1])
    ELSE e

\* The loop as an `if`: one call processes at most one row.
LaneLoop_Once(cs, e) ==
    IF e.i \in DOMAIN cs /\ cs[e.i] # Undefined
    THEN LET commit == cs[e.i]
             s == ProcessCommit(e.currentTracks, e.firstTrackInvisible, commit)
         IN  [i |-> e.i + 1,
              currentTracks |-> s.nextTracks,
              firstTrackInvisible |-> s.firstTrackInvisible,
              items |-> [e.items EXCEPT ![e.i] =
                           [index |-> e.i, commit |-> commit, tracks |-> s.tracks]],
              laneLog |-> Push(e.laneLog, s.nextTracks)]
    ELSE e

\* for (; commits[i]; i++) { ... }
RECURSIVE LaneLoop(_, _)
LaneLoop(cs, e) ==
    IF e.i \in DOMAIN cs /\ cs[e.i] # Undefined
    THEN LET commit == cs[e.i]
             s == ProcessCommit(e.currentTracks, e.firstTrackInvisible, commit)
         IN  LaneLoop(cs,
                [i |-> e.i + 1,
                 currentTracks |-> s.nextTracks,
                 firstTrackInvisible |-> s.firstTrackInvisible,
                 items |-> [e.items EXCEPT ![e.i] =
                              [index |-> e.i, commit |-> commit, tracks |-> s.tracks]],
                 laneLog |-> Push(e.laneLog, s.nextTracks)])
    ELSE e

\* The subscriber with firstTrackInvisible declared inside the callback.
CommitsSubscriber_ResetsFlag(cs, e) ==
    LaneLoop(cs, [e EXCEPT !.items = PadItems(e.items, cs), !.firstTrackInvisible = TRUE])

CommitsSubscriber(cs, e) == LaneLoop(cs, [e EXCEPT !.items = PadItems(e.items, cs)])

Subscriber ==
    /\ notify
    /\ LET e == CommitsSubscriber(commits,
                    [i |-> i, currentTracks |-> currentTracks,
                     firstTrackInvisible |-> firstTrackInvisible,
                     items |-> items, laneLog |-> laneLog])
       IN  /\ i' = e.i
           /\ currentTracks' = e.currentTracks
           /\ firstTrackInvisible' = e.firstTrackInvisible
           /\ items' = e.items
           /\ laneLog' = e.laneLog
    /\ notify' = FALSE
    /\ UNCHANGED <<history, head, gitVars, scrollVars, editorVars, restVars>>

Next ==
    \/ \E end \in 0..Length(items) : Touch(end)
    \/ \E group \in Pages : FetchOk(group)
    \/ \E group \in Pages : FetchFail(group)
    \/ Subscriber

Spec == Init /\ [][Next]_vars

\* The notification of git.commits.$ is a scheduled callback: it is always run.
\* Subscriber is the one step that lowers `notify`, and it is enabled exactly
\* when `notify` holds, so the fairness of that step is stated on `notify`.
LiveSpec == Spec /\ WF_notify(notify /\ notify' = FALSE)

(***************************************************************************)
(* The events of a Scrollable.  A change of an input is delivered to the   *)
(* subscribers before the next event; every action below is one event      *)
(* with the callbacks it triggers.                                         *)
(***************************************************************************)
visibleRange == VisibleRange(scrollTop, containerHeight, Length(scrollItems), itemHeight)

\* The 'scroll' listener.  The browser keeps scrollTop within the content.
Scroll(top) ==
    /\ top # scrollTop
    /\ top <= Max(0, Length(scrollItems) * itemHeight - containerHeight)
    /\ scrollTop' = top
    /\ Becomes(RangeChange(Closure,
                 VisibleRange(top, containerHeight, Length(scrollItems), itemHeight),
                 scrollItems, itemHeight))
    /\ pointer' = NoPointer
    /\ UNCHANGED <<itemHeight, scrollItems, containerHeight, raf, tasks, appVars, editorVars, restVars>>

\* The ResizeObserver callback.
Resize(height) ==
    /\ height # containerHeight
    /\ containerHeight' = height
    /\ Becomes(RangeChange(Closure,
                 VisibleRange(scrollTop, height, Length(scrollItems), itemHeight),
                 scrollItems, itemHeight))
    /\ pointer' = NoPointer
    /\ UNCHANGED <<itemHeight, scrollItems, scrollTop, raf, tasks, appVars, editorVars, restVars>>

\* scheduleInNextFrame(task): tasks.push(task); raf ||= requestAnimationFrame(flush)
ScheduleInNextFrame ==
    /\ tasks < MaxTasks
    /\ tasks' = tasks + 1
    /\ raf' = 1

\* items$ changes: its reaction and, when the range changed, the subscriber
\* of visibleRange$ run, in the one order or in the other; contentHeight$
\* changes with the length of the list, and its subscriber schedules a task.
SetItems(its, reactionFirst) ==
    /\ its # scrollItems
    /\ scrollItems' = its
    /\ IF Length(its) # Length(scrollItems)
       THEN ScheduleInNextFrame
       ELSE UNCHANGED <<raf, tasks>>
    /\ LET range == VisibleRange(scrollTop, containerHeight, Length(its), itemHeight)
           order == Ascending(RangeIndices(range))
       IN  Becomes(IF reactionFirst
                   THEN RangeChange(ItemsReaction(Closure, order, its), range, its, itemHeight)
                   ELSE ItemsReaction(RangeChange(Closure, range, its, itemHeight), order, its))
    /\ pointer' = NoPointer
    /\ UNCHANGED <<itemHeight, containerHeight, scrollTop, appVars, editorVars, restVars>>

\* getItemIndex that returns the index without the test on its range.
GetItemIndex_Unchecked(dy) == [index |-> (scrollTop + dy) \div itemHeight]

\* getItemIndex(e)
GetItemIndex(dy) ==
    LET itemIndex == (scrollTop + dy) \div itemHeight
    IN  IF 0 <= itemIndex /\ itemIndex < Length(scrollItems)
        THEN [index |-> itemIndex] ELSE Undefined

\* The 'click' and 'mousemove' listeners: send(onClick | onHover, itemIndex).
Pointer(type, dy) ==
    /\ pointer' = [dy |-> dy, sent |-> GetItemIndex(dy)]
    /\ handled' = FALSE
    /\ rendered' = {}
    /\ UNCHANGED <<itemHeight, scrollItems, containerHeight, scrollTop,
                   lastRange, added, removed, children, _resources, doms,
                   raf, tasks, _itemEffects, allocatedPeak, appVars, editorVars, restVars>>

\* The animation frame: flush() runs the queued tasks, each of which writes
\* content.style.height = contentHeight$.value.
Frame ==
    /\ raf # 0
    /\ raf' = 0
    /\ tasks' = 0
    /\ handled' = FALSE
    /\ rendered' = {}
    /\ pointer' = NoPointer
    /\ UNCHANGED <<itemHeight, scrollItems, containerHeight, scrollTop,
                   lastRange, added, removed, children, _resources, doms,
                   _itemEffects, allocatedPeak, appVars, editorVars, restVars>>

\* The orders in which the two subscribers of items$ can run: one order is
\* enough when the range stays, since its subscriber is then not notified.
SubscriberOrders(its) ==
    IF VisibleRange(scrollTop, containerHeight, Length(its), itemHeight) = lastRange
    THEN {TRUE}
    ELSE BOOLEAN

ScrollInit ==
    /\ AppInit
    /\ history = Scenario
    /\ head = "A"
    /\ \E its \in ItemLists, h \in ItemHeights : ScrollableInit(its, h)
    /\ EditorInit
    /\ RestInit

ScrollNext ==
    \/ \E top \in ScrollTops : Scroll(top)
    \/ \E height \in ContainerHeights : Resize(height)
    \/ \E its \in ItemLists : \E reactionFirst \in SubscriberOrders(its) :
            SetItems(its, reactionFirst)
    \/ \E type \in {"click", "mousemove"}, dy \in PointerYs : Pointer(type, dy)
    \/ Frame

ScrollSpec == ScrollInit /\ [][ScrollNext]_vars

(***************************************************************************)
(* The editor's requests.  A task of the queue sets the 200 ms timer and,  *)
(* for a path, calls git.blob and git.render; both read commit$ when they  *)
(* are called and answer later.  seq({ window: 1, dropHead: true }) runs   *)
(* one task at a time and keeps the latest scheduled one for later.        *)
(***************************************************************************)
\* The task as it is after its synchronous start, or NoTask if it has
\* nothing to wait for.
Started(task, hash) ==
    IF task = NoTask \/ task.path = NoPath THEN NoTask
    ELSE [path |-> task.path, ref |-> hash, blob |-> "waiting",
          render |-> "waiting", clear |-> TRUE]

\* The entry of a path in a cache, if any.
HasEntry(entries, file) == \E e \in entries : e.path = file
EntryOf(entries, file) == CHOOSE e \in entries : e.path = file

\* The continuation of blob or render for a started task: the cached promise
\* if there is one, or else a request for the resolved commit, which is
\* cached.  A call whose commit$ is undefined waits in _wait$.
Cached(entries, started) ==
    IF started = NoTask THEN entries
    ELSE IF started.ref = NoCommit \/ HasEntry(entries, started.path) THEN entries
    ELSE entries \cup {[path |-> started.path, ref |-> started.ref]}

\* The promises returned to the two calls of a started task.
Serve(started, blobs, codes) ==
    IF started = NoTask \/ started.ref = NoCommit
    THEN UNCHANGED served
    ELSE served' = [asked |-> started.ref,
                    blob |-> EntryOf(blobs, started.path).ref,
                    code |-> EntryOf(codes, started.path).ref]

\* A commit$ subscriber that never clears the caches.
Cleared_Keeps(entries, hash) == entries

\* if (commit) { this.cache.clear(false); this.codeCache.clear(false); ... }
Cleared(entries, hash) == IF hash = NoCommit THEN entries ELSE {}

\* queue.schedule(task), with the caches as the commit$ subscriber left them.
Schedule(task, hash, blobs, codes) ==
    IF running = NoTask
    THEN /\ running' = Started(task, hash)
         /\ pending' = NoTask
         /\ cache' = Cached(blobs, Started(task, hash))
         /\ codeCache' = Cached(codes, Started(task, hash))
         /\ Serve(Started(task, hash), cache', codeCache')
    ELSE /\ pending' = task
         /\ cache' = blobs
         /\ codeCache' = codes
         /\ UNCHANGED <<running, served>>

\* The 'editor.open' event.
Open(file) ==
    /\ file # path
    /\ path' = file
    /\ Schedule([path |-> file], commitHash, cache, codeCache)
    /\ UNCHANGED <<commitHash, contents, html, appVars, scrollVars, gotoVars, frameVars>>

\* commit$ changes: Git clears both caches if the commit is loaded, the
\* calls that wait in _wait$ resolve it, and the editor schedules a task.
SelectCommit(hash) ==
    /\ commitHash' = hash
    /\ IF running # NoTask /\ running.ref = NoCommit /\ hash # NoCommit
       THEN LET resolved == [running EXCEPT !.ref = hash] IN
            /\ running' = resolved
            /\ pending' = [path |-> path]
            /\ cache' = Cached(Cleared(cache, hash), resolved)
            /\ codeCache' = Cached(Cleared(codeCache, hash), resolved)
            /\ Serve(resolved, cache', codeCache')
       ELSE Schedule([path |-> path], hash, Cleared(cache, hash), Cleared(codeCache, hash))

\* A click on a row of the commit list: index$.set(index).
Select(hash) ==
    /\ hash # commitHash
    /\ SelectCommit(hash)
    /\ UNCHANGED <<path, contents, html, appVars, scrollVars, gotoVars, frameVars>>

\* Git.prefetch(path), called when the pointer is over a file.
Prefetch(file) ==
    /\ commitHash # NoCommit
    /\ ~HasEntry(cache, file)
    /\ cache' = cache \cup {[path |-> file, ref |-> commitHash]}
    /\ UNCHANGED <<path, commitHash, contents, html, codeCache, running, pending,
                   appVars, scrollVars, restVars>>

\* The running task ends: clearTimeout, and the queue starts the task it
\* holds.
Settle(task) ==
    IF task.blob = "done" /\ task.render = "done"
    THEN /\ running' = Started(pending, commitHash)
         /\ pending' = NoTask
         /\ cache' = Cached(cache, Started(pending, commitHash))
         /\ codeCache' = Cached(codeCache, Started(pending, commitHash))
         /\ Serve(Started(pending, commitHash), cache', codeCache')
    ELSE /\ running' = task
         /\ UNCHANGED <<pending, cache, codeCache, served>>

\* git.blob(path).then(this.contents$.set)
BlobArrives ==
    /\ running # NoTask
    /\ running.blob = "waiting"
    /\ running.ref # NoCommit
    /\ contents' = [ref |-> running.ref, path |-> running.path]
    /\ Settle([running EXCEPT !.blob = "done"])
    /\ UNCHANGED <<path, commitHash, html, appVars, scrollVars, gotoVars, frameVars>>

\* git.render(path).then(html$.set)
RenderArrives ==
    /\ running # NoTask
    /\ running.render = "waiting"
    /\ running.ref # NoCommit
    /\ html' = [ref |-> running.ref, path |-> running.path]
    /\ Settle([running EXCEPT !.render = "done"])
    /\ UNCHANGED <<path, commitHash, contents, appVars, scrollVars, gotoVars, frameVars>>

\* The 200 ms timer of the running task fires.
ClearTimer ==
    /\ running # NoTask
    /\ running.clear
    /\ running' = [running EXCEPT !.clear = FALSE]
    /\ IF running.path = path
       THEN contents' = Undefined /\ html' = Undefined
       ELSE UNCHANGED <<contents, html>>
    /\ UNCHANGED <<path, commitHash, cache, codeCache, pending, appVars, scrollVars, restVars>>

EditorStart ==
    /\ AppInit
    /\ history = Scenario
    /\ head = "A"
    /\ ScrollableInit(Arr(<< >>), 48)
    /\ EditorInit
    /\ RestInit

EditorNext ==
    \/ \E file \in Paths : Open(file)
    \/ \E hash \in CommitHashes \cup {NoCommit} : Select(hash)
    \/ \E file \in Paths : Prefetch(file)
    \/ BlobArrives
    \/ RenderArrives
    \/ ClearTimer

EditorSpec == EditorStart /\ [][EditorNext]_vars

(***************************************************************************)
(* Git.goto(refName).  The ref is given by the hash of the commit that     *)
(* carries it (Missing: no commit does).  goto runs from its call to its   *)
(* first await, and from the settling of the awaited promise to the next   *)
(* await or to its end.  Reading refNames of an empty slot throws a        *)
(* TypeError: the state "crashed".                                         *)
(***************************************************************************)
\* The first row from k on at which the loop stops: an empty slot or the
\* commit looked for; Length(cs) if there is none.
RECURSIVE GotoStop(_, _, _)
GotoStop(cs, k, target) ==
    IF k >= Length(cs) THEN Length(cs)
    ELSE IF cs[k] = Undefined THEN k
    ELSE IF cs[k].hash = target THEN k
    ELSE GotoStop(cs, k + 1, target)

\* setValue(this.index$, i): commit$ changes if another commit is selected.
GotoSelect(hash) ==
    IF hash = commitHash
    THEN UNCHANGED <<commitHash, cache, codeCache, running, pending, served>>
    ELSE SelectCommit(hash)

\* The loop of goto from row k, whose slot is not empty if k is the row
\* goto has just awaited.
GotoLoop(k, target) ==
    LET stop == GotoStop(commits, k, target) IN
        /\ gotoI' = stop
        /\ IF stop = Length(commits)
           THEN /\ gotoState' = "done"
                /\ UNCHANGED <<gotoPage, _touching, _fetching, inflight,
                               commitHash, cache, codeCache, running, pending, served>>
           ELSE IF commits[stop] = Undefined
           THEN /\ gotoState' = "awaiting"
                /\ gotoPage' = AwaitedPage(stop)
                /\ Requesting(stop)
                /\ UNCHANGED <<commitHash, cache, codeCache, running, pending, served>>
           ELSE /\ gotoState' = "found"
                /\ GotoSelect(commits[stop].hash)
                /\ UNCHANGED <<gotoPage, _touching, _fetching, inflight>>

GotoCall(target) ==
    /\ gotoState = "idle"
    /\ gotoTarget' = target
    /\ GotoLoop(0, target)
    /\ UNCHANGED <<history, head, commits, notify, laneVars, scrollVars,
                   path, contents, html, frameVars>>

\* The awaited promise is settled: goto throws if it was rejected, and
\* reads this.commits.get(i)!.refNames if it was fulfilled.
GotoResume ==
    /\ gotoState = "awaiting"
    /\ _fetching[gotoPage] # "pending"
    /\ IF _fetching[gotoPage] = "rejected"
       THEN /\ gotoState' = "failed"
            /\ UNCHANGED <<gotoI, gotoPage, _touching, _fetching, inflight,
                           commitHash, cache, codeCache, running, pending, served>>
       ELSE IF commits[gotoI] = Undefined
       THEN /\ gotoState' = "crashed"
            /\ UNCHANGED <<gotoI, gotoPage, _touching, _fetching, inflight,
                           commitHash, cache, codeCache, running, pending, served>>
       ELSE GotoLoop(gotoI, gotoTarget)
    /\ UNCHANGED <<history, head, commits, notify, laneVars, scrollVars,
                   path, contents, html, gotoTarget, frameVars>>

GotoStart ==
    /\ AppInit
    /\ history \in HistoriesOf(LongRows, LongRows, FALSE)
    /\ head = HashOf(0)
    /\ ScrollableInit(Arr(<< >>), 48)
    /\ EditorInit
    /\ RestInit

GotoNext ==
    \/ \E end \in 0..Length(items) : Touch(end)
    \/ \E group \in Pages : FetchOk(group)
    \/ \E group \in Pages : FetchFail(group)
    \/ Subscriber
    \/ \E target \in {history[r].hash : r \in DOMAIN history} \cup {Missing} :
            GotoCall(target)
    \/ GotoResume

GotoSpec == GotoStart /\ [][GotoNext]_vars

(***************************************************************************)
(* raf.ts with its tasks told apart.  A task is known by its number in the *)
(* order of the calls of scheduleInNextFrame and by the number of frames   *)
(* served when it was scheduled.  A task may call scheduleInNextFrame      *)
(* while it runs; the tasks of the program do not throw.                   *)
(***************************************************************************)
FrameState ==
    [raf |-> rafHandle, requested |-> requested, tasks |-> taskList,
     ran |-> ran, count |-> scheduledCount]

\* A scheduleInNextFrame that requests a frame for every task.
ScheduleOn_AlwaysRequests(st, frame) ==
    [st EXCEPT !.tasks = Append(@, [id |-> st.count + 1, at |-> frame]),
               !.count = @ + 1,
               !.raf = 1,
               !.requested = @ + 1]

\* tasks.push(task); raf ||= requestAnimationFrame(flush)
ScheduleOn(st, frame) ==
    [st EXCEPT !.tasks = Append(@, [id |-> st.count + 1, at |-> frame]),
               !.count = @ + 1,
               !.raf = 1,
               !.requested = IF st.raf = 0 THEN @ + 1 ELSE @]

\* for (const task of working) task(): the tasks whose position is in
\* `again` schedule one more task while they run.
RECURSIVE RunTasks(_, _, _, _, _)
RunTasks(st, working, k, again, frame) ==
    IF k > Len(working) THEN st
    ELSE LET done == [st EXCEPT !.ran = Append(@, [id |-> working[k].id,
                                                   at |-> working[k].at,
                                                   frame |-> frame])]
         IN  RunTasks(IF k \in again /\ done.count < MaxScheduled
                      THEN ScheduleOn(done, frame)
                      ELSE done,
                      working, k + 1, again, frame)

\* flush: raf = 0; const working = tasks; tasks = []; then the tasks run.
FlushOf(st, again, frame) ==
    RunTasks([st EXCEPT !.raf = 0, !.tasks = << >>, !.requested = @ - 1],
             st.tasks, 1, again, frame)

FrameBecomes(st) ==
    /\ rafHandle' = st.raf
    /\ requested' = st.requested
    /\ taskList' = st.tasks
    /\ ran' = st.ran
    /\ scheduledCount' = st.count

\* scheduleInNextFrame(task), called between two frames.
RafSchedule ==
    /\ scheduledCount < MaxScheduled
    /\ FrameBecomes(ScheduleOn(FrameState, frameNo))
    /\ UNCHANGED <<frameNo, appVars, scrollVars, editorVars, gotoVars, callVars>>

\* The browser serves an animation-frame request: flush().
Flush(again) ==
    /\ requested > 0
    /\ frameNo' = frameNo + 1
    /\ FrameBecomes(FlushOf(FrameState, again, frameNo + 1))
    /\ UNCHANGED <<appVars, scrollVars, editorVars, gotoVars, callVars>>

AnyFlush == \E again \in SUBSET (1..Len(taskList)) : Flush(again)

RafStart ==
    /\ AppInit
    /\ history = Scenario
    /\ head = "A"
    /\ ScrollableInit(Arr(<< >>), 48)
    /\ EditorInit
    /\ RestInit

RafNext ==
    \/ RafSchedule
    \/ AnyFlush

\* A requested animation frame is always served.
RafSpec == RafStart /\ [][RafNext]_vars /\ WF_frameVars(AnyFlush)

(***************************************************************************)
(* Vocabulary of the properties.                                           *)
(***************************************************************************)
Processed == 0..(i - 1)

\* The lane state before and after row r was processed.
LanesBefore(r) == IF r = 0 THEN Arr(<<head>>) ELSE laneLog[r - 1]
LanesAfter(r) == laneLog[r]

TracksOf(r) == items[r].tracks
HasTrack(r, col) == col \in DOMAIN TracksOf(r) /\ TracksOf(r)[col] # NoTrack
TrackColumns(r) == {col \in DOMAIN TracksOf(r) : TracksOf(r)[col] # NoTrack}
OpenLanes(lanes) == {j \in DOMAIN lanes : lanes[j] # Null}

Loaded(r) == r \in DOMAIN commits /\ commits[r] # Undefined
PageRows(group) == {r \in DOMAIN commits : r \div STEP = group}
Settled == \A g \in DOMAIN inflight : inflight[g] = 0

(***************************************************************************)
(* C1.  Rows are processed in increasing index order, whatever the order   *)
(* in which the pages arrive: the processed rows are exactly the rows      *)
(* 0..i-1, each of them held a real commit when it was processed and was   *)
(* processed once (one lane state logged per row); every row from i on is  *)
(* still a placeholder, also when its page has arrived already.            *)
(***************************************************************************)
C1_InOrder ==
    /\ i \in 0..Length(commits)
    /\ Length(laneLog) = i
    /\ \A r \in DOMAIN items :
        /\ r < i => Loaded(r) /\ items[r] # PlaceHolder
                        /\ items[r].index = r /\ items[r].commit = commits[r]
        /\ r >= i => items[r] = PlaceHolder

\* The third page has arrived before the second one and waits for it.
C1_Witness ==
    /\ ~notify
    /\ i = STEP
    /\ ~Loaded(STEP)
    /\ Loaded(2 * STEP)
    /\ items[2 * STEP] = PlaceHolder

(***************************************************************************)
(* C2.  Resumability: the rows, the lane state and the first-lane flag     *)
(* reached by the successive calls of the subscriber are those of a single *)
(* call of the loop on the same commits, started from the seed.            *)
(***************************************************************************)
SingleCall ==
    LaneLoop([r \in Processed |-> commits[r]],
             [i |-> 0, currentTracks |-> Arr(<<head>>), firstTrackInvisible |-> TRUE,
              items |-> [r \in Processed |-> PlaceHolder], laneLog |-> Arr(<< >>)])

C2_Resumable ==
    LET whole == SingleCall
    IN  /\ [r \in Processed |-> items[r]] = whole.items
        /\ currentTracks = whole.currentTracks
        /\ firstTrackInvisible = whole.firstTrackInvisible
        /\ laneLog = whole.laneLog

\* All three pages of a long history were processed, in at least two calls.
C2_Witness == i = LongRows /\ Length(commits) = LongRows /\ ~notify

(***************************************************************************)
(* C3 as claimed.  Every lane index k in the outgoing of a Track of row r  *)
(* has a Track at column k of row r + 1 whose incomming contains k.        *)
(***************************************************************************)
OutgoingOf(r) ==
    UNION {{TracksOf(r)[col].outgoing[x] : x \in DOMAIN TracksOf(r)[col].outgoing} :
            col \in TrackColumns(r)}

Enters(r, col, k) == Includes(TracksOf(r)[col].incomming, k)

C3_Original ==
    \A r \in Processed : r + 1 \in Processed =>
        \A k \in OutgoingOf(r) : HasTrack(r + 1, k) /\ Enters(r + 1, k, k)

(***************************************************************************)
(* C3 as amended.  Every lane index k in the outgoing of a Track of row r  *)
(* is in the incomming of exactly one Track of row r + 1: the Track at     *)
(* column k, or the row's active Track when lane k is merged into it and   *)
(* has no Track of its own.                                                *)
(***************************************************************************)
C3_Connectivity ==
    \A r \in Processed : r + 1 \in Processed =>
        \A k \in OutgoingOf(r) :
            /\ Cardinality({col \in TrackColumns(r + 1) : Enters(r + 1, col, k)}) = 1
            /\ \/ HasTrack(r + 1, k) /\ Enters(r + 1, k, k)
               \/ /\ ~HasTrack(r + 1, k)
                  /\ \E col \in TrackColumns(r + 1) :
                        TracksOf(r + 1)[col].active /\ Enters(r + 1, col, k)

\* A lane leaves a row and is merged into the active Track of the next row.
C3_Witness ==
    \E r \in Processed : r + 1 \in Processed /\ \E k \in OutgoingOf(r) : ~HasTrack(r + 1, k)

(***************************************************************************)
(* C4 as claimed.  An open lane keeps its expected hash X while other      *)
(* commits are processed, and when X is processed it changes to the first  *)
(* parent of X or to null.                                                 *)
(***************************************************************************)
LaterParentsOf(commit) == {commit.parents[k] : k \in DOMAIN commit.parents \ {0}}
Expecting(r) == {j \in DOMAIN LanesBefore(r) : LanesBefore(r)[j] = commits[r].hash}
FirstExpecting(r) == CHOOSE j \in Expecting(r) : \A q \in Expecting(r) : j <= q

C4_Original ==
    \A r \in Processed : \A j \in OpenLanes(LanesBefore(r)) :
        /\ j \in DOMAIN LanesAfter(r)
        /\ j \notin Expecting(r) => LanesAfter(r)[j] = LanesBefore(r)[j]
        /\ j \in Expecting(r) => LanesAfter(r)[j] \in {ParentAt(commits[r], 0), Null}

(***************************************************************************)
(* C4 as amended.  An open lane keeps its expected hash X while other      *)
(* commits are processed.  When X is processed, the first lane expecting X *)
(* changes to the first parent of X or to null, and every other lane       *)
(* expecting X is freed and ends the row null or holding a later parent of *)
(* X.  A lane that a row changes to a hash held null, X or nothing before. *)
(***************************************************************************)
C4_LaneStability ==
    \A r \in Processed :
        /\ \A j \in OpenLanes(LanesBefore(r)) :
            /\ j \in DOMAIN LanesAfter(r)
            /\ j \notin Expecting(r) => LanesAfter(r)[j] = LanesBefore(r)[j]
            /\ j \in Expecting(r) =>
                IF j = FirstExpecting(r)
                THEN LanesAfter(r)[j] = ParentAt(commits[r], 0)
                ELSE LanesAfter(r)[j] \in {Null} \cup LaterParentsOf(commits[r])
        /\ \A j \in OpenLanes(LanesAfter(r)) :
            \/ j \notin DOMAIN LanesBefore(r)
            \/ LanesBefore(r)[j] \in {Null, commits[r].hash, LanesAfter(r)[j]}

\* A lane merged into its commit is taken by a later parent of that commit.
C4_Witness ==
    \E r \in Processed : \E j \in Expecting(r) :
        j # FirstExpecting(r) /\ LanesAfter(r)[j] \in LaterParentsOf(commits[r])

(***************************************************************************)
(* C5 as claimed.  A row has as many Tracks as there are open lanes when   *)
(* the row is processed.                                                   *)
(***************************************************************************)
C5_Original ==
    \A r \in Processed :
        Cardinality(TrackColumns(r)) = Cardinality(OpenLanes(LanesBefore(r)))

(***************************************************************************)
(* C5 as amended.  A row has as many Tracks as there are open lanes when   *)
(* the row is processed, less the lanes merged into the commit's Track     *)
(* (every lane expecting the commit but the first), plus one when no lane  *)
(* expects the commit and it has a parent that no lane expects.            *)
(***************************************************************************)
FreshParents(r) ==
    {k \in DOMAIN commits[r].parents : ~Includes(LanesBefore(r), commits[r].parents[k])}

C5_TrackCount ==
    \A r \in Processed :
        Cardinality(TrackColumns(r)) =
            Cardinality(OpenLanes(LanesBefore(r)))
                - (IF Expecting(r) = {} THEN 0 ELSE Cardinality(Expecting(r)) - 1)
                + (IF Expecting(r) = {} /\ FreshParents(r) # {} THEN 1 ELSE 0)

\* Rows of both kinds: one merges a lane in, one starts a lane of its own.
C5_Witness ==
    /\ \E r \in Processed : Cardinality(Expecting(r)) >= 2
    /\ \E r \in Processed : Expecting(r) = {} /\ FreshParents(r) # {}

(***************************************************************************)
(* C6.  The scenario A(B), B(C, D), C(), D() with head A: lane states      *)
(* [B], [C, D], [null, D], [null, null] and the listed Tracks.             *)
(***************************************************************************)
ScenarioLanes ==
    Arr(<<Arr(<<"B">>), Arr(<<"C", "D">>), Arr(<<Null, "D">>), Arr(<<Null, Null>>)>>)

Shows(r, col, incomming, outgoing, active) ==
    /\ HasTrack(r, col)
    /\ TracksOf(r)[col].incomming = incomming
    /\ TracksOf(r)[col].outgoing = outgoing
    /\ TracksOf(r)[col].active = active

C6_Scenario ==
    (history = Scenario /\ head = "A") =>
        /\ \A r \in Processed : LanesAfter(r) = ScenarioLanes[r]
        /\ 0 \in Processed =>
            /\ TrackColumns(0) = {0}
            /\ Shows(0, 0, Arr(<<0>>), Arr(<<0>>), TRUE)
            /\ TracksOf(0)[0].visible = 1
        /\ 1 \in Processed =>
            /\ TrackColumns(1) = {0}
            /\ Shows(1, 0, Arr(<<0>>), Arr(<<0, 1>>), TRUE)
        /\ 2 \in Processed =>
            /\ TrackColumns(2) = {0, 1}
            /\ Shows(2, 0, Arr(<<0>>), Arr(<< >>), TRUE)
            /\ Shows(2, 1, Arr(<<1>>), Arr(<<1>>), FALSE)
        /\ 3 \in Processed =>
            /\ TrackColumns(3) = {1}
            /\ Shows(3, 1, Arr(<<1>>), Arr(<< >>), TRUE)

C6_Witness == history = Scenario /\ head = "A" /\ i = 4

FreeSlot(lanes) ==
    IF \E j \in DOMAIN lanes : lanes[j] = Null
    THEN CHOOSE j \in DOMAIN lanes :
            lanes[j] = Null /\ \A q \in DOMAIN lanes : lanes[q] = Null => j <= q
    ELSE Length(lanes)

FirstFresh(r) == CHOOSE k \in FreshParents(r) : \A q \in FreshParents(r) : k <= q
ActiveColumns(r) == {col \in TrackColumns(r) : TracksOf(r)[col].active}

NeverLater(hash, r) == \A q \in DOMAIN history : q >= r => history[q].hash # hash

C8_Dangling ==
    /\ \A r \in Processed : \A j \in OpenLanes(LanesBefore(r)) :
        NeverLater(LanesBefore(r)[j], r) =>
            /\ j \in DOMAIN LanesAfter(r)
            /\ LanesAfter(r)[j] = LanesBefore(r)[j]
            /\ Shows(r, j, Arr(<<j>>), Arr(<<j>>), FALSE)
    /\ ~notify => i = Length(commits) \/ ~Loaded(i)

\* A lane for a missing parent was carried through two rows to the end.
C8_Witness ==
    /\ i = Length(commits)
    /\ \E r \in Processed : \E j \in OpenLanes(LanesBefore(r)) :
        /\ LanesBefore(r)[j] = Missing
        /\ r + 1 \in Processed
        /\ LanesAfter(r + 1)[j] = Missing

(***************************************************************************)
(* C9 as claimed.  Once every request is answered and the subscriber has   *)
(* run, the rows of every page that was loaded hold their commit and their *)
(* Tracks, also when another page failed.                                  *)
(***************************************************************************)
C9_Isolation ==
    (Settled /\ ~notify) =>
        \A g \in DOMAIN _fetching : _fetching[g] = "fulfilled" =>
            \A r \in PageRows(g) :
                items[r] # PlaceHolder /\ items[r].commit = history[r]

(***************************************************************************)
(* C10.  No page has two requests in flight, and no step adds a request    *)
(* for a page that was requested before (a page below _touching).          *)
(***************************************************************************)
C10_Dedup ==
    /\ [](\A g \in DOMAIN inflight : inflight[g] <= 1)
    /\ [][\A g \in DOMAIN inflight : g < _touching => inflight'[g] <= inflight[g]]_vars

\* Two pages are in flight, one request each, and a further touch is possible.
C10_Witness ==
    /\ ~notify
    /\ _touching = 3
    /\ inflight[1] = 1
    /\ inflight[2] = 1
    /\ ENABLED Touch(2 * STEP)

(***************************************************************************)
(* C11.  A call of the subscriber that finds no commit at row i leaves i,  *)
(* the lane state, the first-lane flag and the lane log as they are; the   *)
(* notification raised by a completed fetch is always delivered; and once  *)
(* it has been delivered, the rows of every page g such that the pages     *)
(* 0..g are all loaded have been processed.                                *)
(***************************************************************************)
PagesLoadedUpTo(g) == \A r \in DOMAIN commits : r \div STEP <= g => Loaded(r)

C11_Resume ==
    /\ [][(notify /\ ~notify' /\ ~Loaded(i)) =>
            UNCHANGED <<i, currentTracks, firstTrackInvisible, laneLog>>]_vars
    /\ [](~notify =>
            \A g \in Pages : PagesLoadedUpTo(g) =>
                \A r \in DOMAIN commits : r \div STEP <= g => r \in Processed)
    /\ (notify ~> ~notify)

\* The loop stopped at the first row of the second page and went on when
\* that page arrived; it stopped again at the third page, still not loaded.
C11_Witness ==
    /\ ~notify
    /\ i = 2 * STEP
    /\ Length(commits) > 2 * STEP
    /\ ~Loaded(2 * STEP)
    /\ _fetching[1] = "fulfilled"

(***************************************************************************)
(* C12.  The commit list is only ever written by a completed fetch, its    *)
(* length never decreases, and a slot that holds a commit keeps that       *)
(* commit at that index in every later state.                              *)
(***************************************************************************)
C12_AppendOnly ==
    [][/\ Length(commits') >= Length(commits)
       /\ \A r \in DOMAIN commits : Loaded(r) => commits'[r] = commits[r]
       /\ commits' # commits => \E g \in Pages : FetchOk(g)]_vars

\* Two fetched pages have been written into the list after the first one.
C12_Witness ==
    /\ Length(commits) = LongRows
    /\ \A r \in DOMAIN commits : Loaded(r)
    /\ \A r \in DOMAIN commits : commits[r] = history[r]
    /\ _fetching[1] = "fulfilled"
    /\ _fetching[2] = "fulfilled"

(***************************************************************************)
(* Vocabulary of the properties of the Scrollable.                         *)
(***************************************************************************)
\* Math.floor(a / b) and Math.ceil(a / b) for b > 0, from their definitions.
FloorOf(a, b) == CHOOSE q \in -200..200 : q * b <= a /\ a < (q + 1) * b
CeilOf(a, b) == CHOOSE q \in -200..200 : (q - 1) * b < a /\ a <= q * b

Bound == {k \in DOMAIN children : children[k] # NoChild}
ItemCount == Length(scrollItems)

(***************************************************************************)
(* C13.  The visible range satisfies 0 <= start <= end <= itemCount in     *)
(* every state, also after the list has shrunk under a scrolled viewport.  *)
(***************************************************************************)
C13_RangeBounds ==
    /\ 0 <= visibleRange.start
    /\ visibleRange.start <= visibleRange.end
    /\ visibleRange.end <= ItemCount

(***************************************************************************)
(* C14.  The range the subscriber last saw is max(0, floor(scrollTop /     *)
(* itemHeight)) .. min(itemCount, ceil((scrollTop + containerHeight) /     *)
(* itemHeight)); for itemHeight 48, containerHeight 200, scrollTop 0 and   *)
(* five items or more it is 0..5; and a step after which the range has     *)
(* the same start and end does not run the subscriber of the range.        *)
(***************************************************************************)
C14_RangeFormula ==
    /\ [](/\ lastRange.start = Max(0, FloorOf(scrollTop, itemHeight))
          /\ lastRange.end = Min(ItemCount, CeilOf(scrollTop + containerHeight, itemHeight))
          /\ lastRange = visibleRange)
    /\ [](\A n \in 5..(5 + MaxItems) :
            VisibleRange(0, 200, n, 48) = [start |-> 0, end |-> 5])
    /\ [][visibleRange' = visibleRange => ~handled']_vars

\* A scroll by less than a row inside a non-empty range: no call.
C14_Witness ==
    /\ ~handled
    /\ pointer = NoPointer
    /\ scrollTop = 10
    /\ lastRange.end > lastRange.start

(***************************************************************************)
(* C15.  When the subscriber runs for a change from oldRange to newRange,  *)
(* `added` is filled with exactly the indices of newRange and `removed`    *)
(* with exactly those of oldRange outside newRange; the two are disjoint,  *)
(* and both Sets are empty when the subscriber returns.                    *)
(***************************************************************************)
C15_Diff ==
    [][handled' =>
        LET a == SeqSet(AddedOrder(lastRange', lastRange))
            r == SeqSet(RemovedOrder(lastRange', lastRange))
        IN  /\ a = RangeIndices(lastRange')
            /\ r = RangeIndices(lastRange) \ RangeIndices(lastRange')
            /\ a \cap r = {}
            /\ added' = {}
            /\ removed' = {}]_vars

\* The window moved down by one row: row 1 stayed, row 2 is new.
C15_Witness ==
    /\ handled
    /\ lastRange = [start |-> 1, end |-> 3]
    /\ rendered = {2}
    /\ added = {}
    /\ removed = {}

(***************************************************************************)
(* C16.  As stated: added \cup removed is the set of the indices that are  *)
(* in exactly one of the two ranges.                                       *)
(***************************************************************************)
C16_Original ==
    [][handled' =>
        SeqSet(AddedOrder(lastRange', lastRange))
                \cup SeqSet(RemovedOrder(lastRange', lastRange))
            = (RangeIndices(lastRange) \ RangeIndices(lastRange'))
                \cup (RangeIndices(lastRange') \ RangeIndices(lastRange))]_vars

(***************************************************************************)
(* C16.  Diff completeness: added \cup removed is the union of the two     *)
(* ranges, and the indices in exactly one of the two ranges are those of   *)
(* `removed` together with those of `added` outside the old range.         *)
(***************************************************************************)
C16_DiffComplete ==
    [][handled' =>
        LET a == SeqSet(AddedOrder(lastRange', lastRange))
            r == SeqSet(RemovedOrder(lastRange', lastRange))
            old == {k \in 0..MaxItems : lastRange.start <= k /\ k < lastRange.end}
            new == {k \in 0..MaxItems : lastRange'.start <= k /\ k < lastRange'.end}
        IN  /\ a \cup r = old \cup new
            /\ (a \ old) \cup r = (old \cup new) \ (old \cap new)]_vars

\* The window moved up by one row: row 1 stayed, row 0 is new and took the
\* template of row 2, which left.
C16_Witness ==
    /\ handled
    /\ lastRange = [start |-> 0, end |-> 2]
    /\ rendered = {0}
    /\ children[1] # NoChild
    /\ children[0] # NoChild
    /\ children[0].dom > children[1].dom
    /\ _resources = << >>

(***************************************************************************)
(* C17.  The rows with a bound template are exactly the rows of the range  *)
(* the subscriber last saw; a bound template is attached and positioned    *)
(* at index * itemHeight; the templates of the rows that left the range    *)
(* are detached and are in the pool, and no template is in two places.     *)
(***************************************************************************)
C17_BoundIsRange ==
    /\ Bound = RangeIndices(lastRange)
    /\ \A k \in Bound :
        /\ children[k].dom \in DOMAIN doms
        /\ doms[children[k].dom].attached
        /\ doms[children[k].dom].top = k * itemHeight
    /\ \A d \in DOMAIN doms :
        \/ /\ \E n \in DOMAIN _resources : _resources[n] = d
           /\ \A k \in Bound : children[k].dom # d
           /\ ~doms[d].attached
        \/ /\ \A n \in DOMAIN _resources : _resources[n] # d
           /\ \E k \in Bound : children[k].dom = d
    /\ \A k, l \in Bound : children[k].dom = children[l].dom => k = l
    /\ \A m, n \in DOMAIN _resources : _resources[m] = _resources[n] => m = n

\* One row is bound below the top of the list and one template was released.
C17_Witness ==
    /\ Bound # {}
    /\ lastRange.start > 0
    /\ Len(_resources) > 0
    /\ handled

(***************************************************************************)
(* C18.  Idempotent rebinding: when the range changes while the list does  *)
(* not, and a row stays visible whose template shows the item the list     *)
(* holds at that row, renderItem is not called for that row.               *)
(***************************************************************************)
C18_Idempotent ==
    [][(handled' /\ scrollItems' = scrollItems) =>
        \A k \in RangeIndices(lastRange) \cap RangeIndices(lastRange') :
            (children[k] # NoChild /\ doms[children[k].dom].shown = scrollItems[k])
                => k \notin rendered']_vars

(***************************************************************************)
(* C19.  Mutation without range change: when the list changes and neither *)
(* its length nor the range does, renderItem is called for exactly the     *)
(* visible rows whose item changed.                                        *)
(***************************************************************************)
C19_OnlyChanged ==
    [][(scrollItems' # scrollItems /\ Length(scrollItems') = Length(scrollItems)
            /\ lastRange' = lastRange) =>
        rendered' = {k \in RangeIndices(lastRange) : scrollItems'[k] # scrollItems[k]}]_vars

(***************************************************************************)
(* C20.  Pointer mapping: a click or a mouse move at dy sends the index    *)
(* floor((scrollTop + dy) / itemHeight) when it is in 0..itemCount-1 and   *)
(* sends nothing otherwise.                                                *)
(***************************************************************************)
C20_PointerMapping ==
    pointer # NoPointer =>
        LET index == FloorOf(scrollTop + pointer.dy, itemHeight)
        IN  /\ (0 <= index /\ index < ItemCount) => pointer.sent = [index |-> index]
            /\ ~(0 <= index /\ index < ItemCount) => pointer.sent = Undefined
            /\ pointer.sent # Undefined => pointer.sent.index \in 0..(ItemCount - 1)

\* An index was sent from a scrolled viewport.
C20_Witness ==
    /\ pointer # NoPointer
    /\ pointer.sent # Undefined
    /\ pointer.sent.index > 0
    /\ scrollTop > 0

(***************************************************************************)
(* C21.  Scheduling: a frame runs at most one write of the content height, *)
(* and the position of a row (style.top) is written by a frame only, not   *)
(* by the event that changes the range.                                    *)
(***************************************************************************)
FrameStep == raf # 0 /\ raf' = 0

C21_Batched ==
    [][/\ FrameStep => tasks <= 1
       /\ (\E d \in DOMAIN doms' : d \notin DOMAIN doms \/ doms'[d].top # doms[d].top)
            => FrameStep]_vars

(***************************************************************************)
(* C22.  Pool: alloc returns the last released template when the free list *)
(* is not empty and constructs one only when it is empty; release appends  *)
(* the template to the free list and leaves what it shows as it is; the    *)
(* number of templates constructed is the largest number that were         *)
(* allocated at the same time.                                             *)
(***************************************************************************)
C22_Pool ==
    /\ LET a == PoolAlloc(Closure)
       IN  IF _resources # << >>
           THEN /\ a.dom = _resources[Len(_resources)]
                /\ a.c.doms = doms
                /\ a.c._resources = SubSeq(_resources, 1, Len(_resources) - 1)
           ELSE /\ a.dom \notin DOMAIN doms
                /\ Len(a.c.doms) = Len(doms) + 1
                /\ a.c._resources = << >>
    /\ \A k \in Bound :
        LET r == PoolRelease(Closure, children[k].dom)
        IN  /\ r._resources = Append(_resources, children[k].dom)
            /\ r.doms = doms
    /\ Len(doms) = allocatedPeak

\* Two templates were made; one is released and still shows its item, the
\* other one is bound.
C22_Witness ==
    /\ Len(doms) = 2
    /\ Len(_resources) = 1
    /\ doms[_resources[1]].shown \in ItemValues
    /\ Bound # {}

(***************************************************************************)
(* C23.  The templates allocated and not released are at most              *)
(* ceil(containerHeight / itemHeight) + 1.                                 *)
(***************************************************************************)
C23_AllocatedBound ==
    /\ Len(doms) - Len(_resources) <= CeilOf(containerHeight, itemHeight) + 1
    /\ Cardinality(Bound) = Len(doms) - Len(_resources)

\* The viewport is lower than a row and shows parts of two rows.
C23_Witness ==
    /\ containerHeight > 0
    /\ containerHeight < itemHeight
    /\ Cardinality(Bound) = 2

(***************************************************************************)
(* C24.  A disposer that renderItem returned for an item and a template is *)
(* live only while that template shows that item: it has been invoked by   *)
(* the time the template shows another item.                               *)
(***************************************************************************)
C24_Disposed ==
    \A item \in ItemValues :
        _itemEffects[item] # 0 => doms[_itemEffects[item]].shown = item
(***************************************************************************)
(* C25.  A response is written to contents$ or html$ only if it answers    *)
(* the request for the path and the commit that are selected when it       *)
(* arrives: the response of a request that a newer one for another path or *)
(* commit has superseded is not written.                                   *)
(***************************************************************************)
C25_Superseded ==
    [][/\ (contents' # contents /\ contents' # Undefined)
            => (contents'.path = path /\ contents'.ref = commitHash)
       /\ (html' # html /\ html' # Undefined)
            => (html'.path = path /\ html'.ref = commitHash)]_vars

(***************************************************************************)
(* Vocabulary of the lane choice: the parents the while loop assigns, the  *)
(* lanes that are null after the scan of the row, and the lane the rule    *)
(* "rejoin, else lowest null slot, else new slot at the end" gives to      *)
(* parent k.                                                               *)
(***************************************************************************)
ParentsOf(r) == commits[r].parents
LoopParents(r) == {k \in DOMAIN ParentsOf(r) : Expecting(r) = {} \/ k >= 1}
FreshLoop(r) == FreshParents(r) \cap LoopParents(r)
ScanFree(r) ==
    {j \in DOMAIN LanesBefore(r) :
        \/ LanesBefore(r)[j] = Null
        \/ j \in Expecting(r) /\ j # FirstExpecting(r)}
NthOf(S, m) == CHOOSE x \in S : Cardinality({y \in S : y < x}) = m
FirstLaneOf(lanes, hash) ==
    CHOOSE j \in DOMAIN lanes : lanes[j] = hash /\ \A q \in DOMAIN lanes : lanes[q] = hash => j <= q
SlotOf(r, k) ==
    IF Includes(LanesBefore(r), ParentsOf(r)[k])
    THEN FirstLaneOf(LanesBefore(r), ParentsOf(r)[k])
    ELSE LET m == Cardinality({q \in FreshLoop(r) : q < k})
         IN  IF m < Cardinality(ScanFree(r)) THEN NthOf(ScanFree(r), m)
             ELSE Length(LanesBefore(r)) + m - Cardinality(ScanFree(r))

(***************************************************************************)
(* C26.  Primary selection: when lanes expect the commit, the lowest one,  *)
(* j, holds the row's only active Track, with depth j and incoming         *)
(* starting with j; with a first parent, lane j expects that parent after  *)
(* the row and outgoing starts with j; for a root commit lane j is null    *)
(* after the row and outgoing is empty.                                    *)
(***************************************************************************)
C26_PrimarySelection ==
    \A r \in Processed : Expecting(r) # {} =>
        LET j == FirstExpecting(r)
            t == TracksOf(r)
        IN  /\ HasTrack(r, j)
            /\ ActiveColumns(r) = {j}
            /\ t[j].depth = j
            /\ t[j].incomming[0] = j
            /\ IF Length(ParentsOf(r)) > 0
               THEN /\ LanesAfter(r)[j] = ParentsOf(r)[0]
                    /\ Length(t[j].outgoing) >= 1
                    /\ t[j].outgoing[0] = j
               ELSE /\ LanesAfter(r)[j] = Null
                    /\ t[j].outgoing = Arr(<< >>)

\* Two lanes expected a commit with a parent, and the lowest of several
\* lanes was not lane 0 for a root commit.
C26_Witness ==
    /\ \E r \in Processed :
        Cardinality(Expecting(r)) >= 2 /\ Length(ParentsOf(r)) > 0
    /\ \E r \in Processed :
        Expecting(r) # {} /\ FirstExpecting(r) > 0 /\ Length(ParentsOf(r)) = 0

(***************************************************************************)
(* C27.  Merge-in: every lane but the lowest that expects the commit has   *)
(* no Track in the row; the primary's incoming lists the expecting lanes   *)
(* in ascending order; after the row such a lane is null or holds a later  *)
(* parent of the commit that no lane expected.                             *)
(***************************************************************************)
C27_MergeIn ==
    \A r \in Processed : Expecting(r) # {} =>
        LET j == FirstExpecting(r)
            order == Ascending(Expecting(r))
        IN  /\ Length(TracksOf(r)[j].incomming) = Len(order)
            /\ \A n \in 1..Len(order) : TracksOf(r)[j].incomming[n - 1] = order[n]
            /\ \A q \in Expecting(r) \ {j} :
                /\ ~HasTrack(r, q)
                /\ \/ LanesAfter(r)[q] = Null
                   \/ \E k \in FreshLoop(r) : LanesAfter(r)[q] = ParentsOf(r)[k]

\* A lane merged into the commit is taken by a later parent, and another
\* merged lane ends the row null.
C27_Witness ==
    /\ \E r \in Processed : \E q \in Expecting(r) :
        q # FirstExpecting(r) /\ LanesAfter(r)[q] # Null
    /\ \E r \in Processed : \E q \in Expecting(r) :
        q # FirstExpecting(r) /\ LanesAfter(r)[q] = Null

(***************************************************************************)
(* C28.  Each parent beyond the first goes to the first lane that expects  *)
(* it already, without a new slot, else to the lowest null slot of the     *)
(* lane state, else to a new slot at the end; with a primary, its outgoing *)
(* lists the lane of parent k at position k; this holds for three and      *)
(* more parents.                                                           *)
(***************************************************************************)
C28_LaneChoice ==
    \A r \in Processed :
        /\ \A k \in DOMAIN ParentsOf(r) \ {0} :
            /\ SlotOf(r, k) \in DOMAIN LanesAfter(r)
            /\ LanesAfter(r)[SlotOf(r, k)] = ParentsOf(r)[k]
            /\ Expecting(r) # {} =>
                /\ k \in DOMAIN TracksOf(r)[FirstExpecting(r)].outgoing
                /\ TracksOf(r)[FirstExpecting(r)].outgoing[k] = SlotOf(r, k)
        /\ Length(LanesAfter(r)) =
                Length(LanesBefore(r))
                    + Max(0, Cardinality(FreshLoop(r)) - Cardinality(ScanFree(r)))

\* A commit with four parents: one rejoins a lane, one takes a freed lane
\* below the end, one opens a new lane.
C28_Witness ==
    \E r \in Processed :
        /\ Length(ParentsOf(r)) >= 3
        /\ Expecting(r) # {}
        /\ \E k \in DOMAIN ParentsOf(r) \ {0} : k \notin FreshLoop(r)
        /\ \E k \in FreshLoop(r) : SlotOf(r, k) < Length(LanesBefore(r))
        /\ \E k \in FreshLoop(r) : SlotOf(r, k) >= Length(LanesBefore(r))

(***************************************************************************)
(* C29 as stated.  A parent beyond the first that no lane expects gets a   *)
(* Track at its slot, with outgoing [slot] and incoming [], active exactly *)
(* when the row has no primary.                                            *)
(***************************************************************************)
C29_Original ==
    \A r \in Processed : \A k \in FreshLoop(r) \ {0} :
        LET slot == SlotOf(r, k) IN
        /\ HasTrack(r, slot)
        /\ TracksOf(r)[slot].outgoing = Arr(<<slot>>)
        /\ TracksOf(r)[slot].incomming = Arr(<< >>)
        /\ TracksOf(r)[slot].active = (Expecting(r) = {})

(***************************************************************************)
(* C29 as amended.  A parent beyond the first that no lane expects: when   *)
(* the row has an active Track already (the primary, or the Track made for *)
(* an earlier such parent), no Track is made at the slot and the slot is   *)
(* appended to the outgoing of the active Track; when it has none, a Track *)
(* is made at the slot with depth slot, incoming [], outgoing starting     *)
(* with the slot, and active true.                                         *)
(***************************************************************************)
C29_Allocation ==
    \A r \in Processed : \A k \in FreshLoop(r) \ {0} :
        LET slot == SlotOf(r, k) IN
        IF Expecting(r) # {} \/ \E q \in FreshLoop(r) : q < k
        THEN /\ ~HasTrack(r, slot)
             /\ \E col \in ActiveColumns(r) : Includes(TracksOf(r)[col].outgoing, slot)
        ELSE /\ HasTrack(r, slot)
             /\ TracksOf(r)[slot].depth = slot
             /\ TracksOf(r)[slot].incomming = Arr(<< >>)
             /\ TracksOf(r)[slot].outgoing[0] = slot
             /\ TracksOf(r)[slot].active

\* An unexpected commit whose first parent rejoins a lane and whose second
\* parent starts one; later a commit with a primary gets a new lane.
C29_Witness ==
    /\ \E r \in Processed :
        /\ Expecting(r) = {}
        /\ 0 \notin FreshLoop(r)
        /\ 1 \in FreshLoop(r)
        /\ HasTrack(r, SlotOf(r, 1))
    /\ \E r \in Processed :
        /\ Expecting(r) # {}
        /\ FreshLoop(r) # {}

(***************************************************************************)
(* C30.  First-lane visibility.  The flag is set as long as no commit was  *)
(* matched on lane 0; the primary is emerging (1) exactly on the first row *)
(* matched on lane 0, so at most one row is emerging; a primary on another *)
(* lane is hidden (0) while the flag is set and established (2) after;     *)
(* a pass-through Track on lane 0 is hidden while the flag is set.         *)
(***************************************************************************)
MatchedOnFirst(r) == Expecting(r) # {} /\ FirstExpecting(r) = 0
FlagBefore(r) == \A q \in 0..(r - 1) : ~MatchedOnFirst(q)
Emerging(r) == \E col \in TrackColumns(r) : TracksOf(r)[col].visible = 1

C30_Visibility ==
    /\ firstTrackInvisible = FlagBefore(i)
    /\ Cardinality({r \in Processed : Emerging(r)}) <= 1
    /\ \A r \in Processed :
        /\ Emerging(r) <=> (MatchedOnFirst(r) /\ FlagBefore(r))
        /\ Expecting(r) # {} =>
            TracksOf(r)[FirstExpecting(r)].visible =
                IF FirstExpecting(r) = 0
                THEN (IF FlagBefore(r) THEN 1 ELSE 2)
                ELSE (IF FlagBefore(r) THEN 0 ELSE 2)
        /\ (HasTrack(r, 0) /\ ~MatchedOnFirst(r) /\ 0 \in OpenLanes(LanesBefore(r))) =>
            TracksOf(r)[0].visible = (IF FlagBefore(r) THEN 0 ELSE 2)

\* A hidden primary beside a hidden lane 0, and later the emerging row.
C30_Witness ==
    /\ \E r \in Processed :
        /\ Expecting(r) # {}
        /\ FirstExpecting(r) > 0
        /\ TracksOf(r)[FirstExpecting(r)].visible = 0
        /\ HasTrack(r, 0)
        /\ TracksOf(r)[0].visible = 0
    /\ \E r \in Processed : Emerging(r)

(***************************************************************************)
(* C31.  Every processed row has exactly one Track with active = true,     *)
(* also when no lane expects the commit and it has no parent or only       *)
(* parents that lanes expect already.                                      *)
(***************************************************************************)
C31_OneActive ==
    \A r \in Processed : Cardinality(ActiveColumns(r)) = 1

(***************************************************************************)
(* C32.  In every processed row the outgoing lanes of the row's Tracks are *)
(* the lanes that are not null after the row, the incoming lanes are the   *)
(* lanes that were not null before it, so the outgoing lanes of a row are  *)
(* the incoming lanes of the next; the Track at column j has depth j.      *)
(***************************************************************************)
IncomingOf(r) ==
    UNION {{TracksOf(r)[col].incomming[n] : n \in DOMAIN TracksOf(r)[col].incomming} :
             col \in TrackColumns(r)}

C32_LanesCovered ==
    \A r \in Processed :
        /\ OutgoingOf(r) = OpenLanes(LanesAfter(r))
        /\ IncomingOf(r) = OpenLanes(LanesBefore(r))
        /\ (r + 1) \in Processed => OutgoingOf(r) = IncomingOf(r + 1)
        /\ \A col \in TrackColumns(r) : TracksOf(r)[col].depth = col

\* A row with several open lanes follows a row that opened them, and two of
\* them end in its commit.
C32_Witness ==
    \E r \in Processed :
        /\ (r + 1) \in Processed
        /\ Cardinality(OutgoingOf(r)) >= 2
        /\ Cardinality(Expecting(r + 1)) >= 2

(***************************************************************************)
(* C33.  Render-target exclusivity: no template is bound to two rows, no   *)
(* template of the free list is bound to a row, and no template is in the  *)
(* free list twice.                                                        *)
(***************************************************************************)
C33_Exclusive ==
    /\ \A k \in Bound : \A l \in Bound \ {k} : children[k].dom # children[l].dom
    /\ \A k \in Bound : children[k].dom \notin SeqSet(_resources)
    /\ Cardinality(SeqSet(_resources)) = Len(_resources)

\* A template that showed a row is in the free list while another one is
\* bound, after the list has changed.
C33_Witness ==
    /\ Len(_resources) = 1
    /\ doms[_resources[1]].shown = "y"
    /\ \E k \in Bound : doms[children[k].dom].shown = "x"

(***************************************************************************)
(* C34.  Displayed content is current: for every bound row i the item last *)
(* rendered into its template is items[i], and children[i].data is that    *)
(* item too.                                                               *)
(***************************************************************************)
C34_Current ==
    \A k \in Bound :
        /\ k \in DOMAIN scrollItems
        /\ doms[children[k].dom].shown = scrollItems[k]
        /\ children[k].data = scrollItems[k]

(***************************************************************************)
(* C35.  Item-list invariant: once the subscriber of the commit list has   *)
(* run, the item list is as long as the commit list, every row below the   *)
(* processed index i is a real item whose index is its position and whose  *)
(* commit is the commit at that position, and every row from i on is the   *)
(* placeholder.                                                            *)
(***************************************************************************)
C35_ItemList ==
    ~notify =>
        /\ Length(items) = Length(commits)
        /\ DOMAIN items = DOMAIN commits
        /\ \A r \in DOMAIN commits :
            IF r < i
            THEN /\ items[r] # PlaceHolder
                 /\ items[r].index = r
                 /\ items[r].commit = commits[r]
            ELSE items[r] = PlaceHolder

\* The list is partly processed: a real item is followed by a placeholder.
C35_Witness ==
    /\ ~notify
    /\ i > 0
    /\ i < Length(commits)
    /\ items[i - 1] # PlaceHolder
    /\ items[i] = PlaceHolder

(***************************************************************************)
(* C36.  The pages requested so far are the pages 1.._touching-1 (page 0   *)
(* is there from the start), _touching never decreases, and touch(end)     *)
(* requests exactly the pages up to ceil(end / STEP) that were not         *)
(* requested before: no page is requested while an earlier one is not.     *)
(***************************************************************************)
Requested == DOMAIN _fetching \ {0}

C36_Prefix ==
    /\ [](/\ _touching >= 1
          /\ Requested = 1..(_touching - 1)
          /\ \A end \in 0..MaxRows :
                TouchedPages(_touching, end) = (1..Ceil(end, STEP)) \ Requested)
    /\ [][/\ _touching' >= _touching
          /\ \A g \in DOMAIN _fetching' \ DOMAIN _fetching :
                \A q \in 1..g : q \in DOMAIN _fetching']_vars

\* One touch has requested two pages at once and both are under way.
C36_Witness ==
    /\ _touching >= 3
    /\ inflight[1] > 0
    /\ inflight[2] > 0

(***************************************************************************)
(* C37.  goto(refName) never reads an unloaded row: it does not throw on   *)
(* an empty slot, and whenever it found slot i empty and awaits touch(i),  *)
(* the promise it awaits is the fetch of the page that contains row i,     *)
(* which has been requested; this also holds while fetches of other pages  *)
(* are in flight and complete in any order.                                *)
(***************************************************************************)
C37_GotoLoaded ==
    /\ gotoState # "crashed"
    /\ gotoState = "awaiting" =>
        /\ gotoPage = gotoI \div STEP
        /\ gotoPage \in DOMAIN _fetching
        /\ (_fetching[gotoPage] = "fulfilled" => Loaded(gotoI))
    /\ gotoState = "found" => Loaded(gotoI) /\ commits[gotoI].hash = gotoTarget

\* goto awaited the second page and the third, found its commit on the
\* third, and a page requested for the visible rows is still in flight.
C37_Witness ==
    /\ gotoState = "found"
    /\ gotoI = 2 * STEP
    /\ \E g \in Pages : inflight[g] > 0

(***************************************************************************)
(* C38.  Frame scheduler: at most one animation-frame request is           *)
(* outstanding at any time, and one is outstanding whenever a task is      *)
(* queued; every scheduled task runs exactly once (at most once, and it    *)
(* does run), in the order scheduled, in the first frame after it was      *)
(* scheduled; a task scheduled while a flush is running runs in the        *)
(* following frame, not in the current one.                                *)
(***************************************************************************)
RanIds == {ran[k].id : k \in DOMAIN ran}
QueuedIds == {taskList[k].id : k \in DOMAIN taskList}

C39_NoStale ==
    /\ served # NoCall => served.blob = served.asked /\ served.code = served.asked
    /\ commitHash # NoCommit => \A e \in cache \cup codeCache : e.ref = commitHash

\* After a change of the selected commit the task of the open file was given
\* promises started for the new commit, and a hover has cached another file.
C39_Witness ==
    /\ commitHash = "B"
    /\ served # NoCall
    /\ served.asked = "B"
    /\ running # NoTask
    /\ running.path = "a"
    /\ [path |-> "b", ref |-> "B"] \in cache
    /\ ~HasEntry(codeCache, "b")

====
